---- MODULE Spec2Model ----
(***************************************************************************)
(* A model of the chewed / chewdoc documentation generator: the import     *)
(* classifier, the annotation resolver and signature formatter, the        *)
(* constant extractor, the responsibility inferrer, the module processor   *)
(* and the two package analyzers.                                          *)
(*                                                                         *)
(* The program is single threaded and synchronous: one call runs to        *)
(* completion before the next starts.  A state holds the call that has     *)
(* just completed (its operation, its arguments and its outcome) and the   *)
(* little state that outlives a call: the staging directories on disk.     *)
(*                                                                         *)
(* Conventions.  A Python string is a sequence of tokens, and              *)
(* concatenation is \o.  A dotted path is the sequence of its segments, so *)
(* split(".") is the sequence itself.  A Python dict is a function whose   *)
(* domain is its key set (a record), a Python list is a sequence, None is  *)
(* the record NoneV.  A syntax tree node is a record with a kind field.    *)
(* Where a string has to be told from None or from a dict it is wrapped,   *)
(* Str(tokens).                                                            *)
(* An outcome is Ok(value) or Raised(exception type, message).             *)
(***************************************************************************)
EXTENDS Integers, Sequences, FiniteSets, TLC

VARIABLES pc, call, tmpdirs, configs

vars == <<pc, call, tmpdirs, configs>>

----------------------------------------------------------------------------
(* Bounds of the model *)

MaxParams == 3
MaxDefaults == 3
MaxItems == 4
MaxBody == 3
MaxImportStmts == 2
MaxImports == 2
MaxModules == 2
MaxFiles == 3

----------------------------------------------------------------------------
(* Values *)

NoneV == [kind |-> "None"]

\* a string where None or a dict may stand instead
Str(value) == [kind |-> "str", value |-> value]

Ok(v) == [status |-> "ok", value |-> v]

Raised(exc, msg) == [status |-> "raised", exc |-> exc, msg |-> msg]

Range(s) == {s[i] : i \in 1..Len(s)}

EmptyDict == [k \in {} |-> k]

\* isinstance(x, dict): the syntax tree nodes, None and Str carry a kind
IsDict(x) == "kind" \notin DOMAIN x

\* d.get(key, default)
Get(d, key, default) == IF key \in DOMAIN d THEN d[key] ELSE default

SeqsUpTo(S, n) == UNION {[1..k -> S] : k \in 0..n}

\* sep.join(parts), parts a sequence of strings
RECURSIVE Join(_, _)
Join(sep, parts) ==
    IF parts = <<>> THEN <<>>
    ELSE IF Len(parts) = 1 THEN parts[1]
    ELSE parts[1] \o sep \o Join(sep, Tail(parts))

\* s[:n]
Take(s, n) == SubSeq(s, 1, IF Len(s) < n THEN Len(s) ELSE n)

\* zip(a, b): as long as the shorter of the two
Zip(a, b) ==
    [i \in 1..(IF Len(a) < Len(b) THEN Len(a) ELSE Len(b)) |-> <<a[i], b[i]>>]

\* [x] * n, the empty list when n <= 0
Repeat(x, n) == [i \in 1..(IF n < 0 THEN 0 ELSE n) |-> x]

----------------------------------------------------------------------------
(* Expression nodes and ast.unparse *)

Name(id) == [kind |-> "Name", id |-> id]

Constant(repr) == [kind |-> "Constant", repr |-> repr]

Attribute(value, attr) == [kind |-> "Attribute", value |-> value, attr |-> attr]

Subscript(value, slice) == [kind |-> "Subscript", value |-> value, slice |-> slice]

TupleNode(elts) == [kind |-> "Tuple", elts |-> elts]

RECURSIVE Unparse(_)
RECURSIVE UnparseAll(_)
UnparseAll(nodes) ==
    IF nodes = <<>> THEN <<>> ELSE <<Unparse(Head(nodes))>> \o UnparseAll(Tail(nodes))

\* ast.unparse(node).strip(): the source text of an expression.  A tuple is
\* parenthesised, except as the slice of a subscript.
Unparse(node) ==
    CASE node.kind = "Name" -> <<node.id>>
      [] node.kind = "Constant" -> <<node.repr>>
      [] node.kind = "Attribute" -> Unparse(node.value) \o <<".", node.attr>>
      [] node.kind = "Tuple" ->
            <<"(">> \o Join(<<", ">>, UnparseAll(node.elts)) \o <<")">>
      [] node.kind = "Subscript" ->
            Unparse(node.value) \o <<"[">>
            \o (IF node.slice.kind = "Tuple"
                THEN Join(<<", ">>, UnparseAll(node.slice.elts))
                ELSE Unparse(node.slice))
            \o <<"]">>

----------------------------------------------------------------------------
(* chewdoc/utils.py: get_annotation *)

RECURSIVE get_annotation(_, _)
RECURSIVE get_annotation_all(_, _)
get_annotation_all(nodes, config) ==
    IF nodes = <<>> THEN <<>>
    ELSE <<get_annotation(Head(nodes), config)>> \o get_annotation_all(Tail(nodes), config)

get_annotation(node, config) ==
    IF node.kind = "Subscript"
    THEN LET base == get_annotation(node.value, config)
             params == IF node.slice.kind = "Tuple"
                       THEN Join(<<", ">>, get_annotation_all(node.slice.elts, config))
                       ELSE get_annotation(node.slice, config)
         IN  base \o <<"[">> \o params \o <<"]">>
    ELSE Unparse(node)

----------------------------------------------------------------------------
(* chewdoc/utils.py: format_function_signature *)

Arg(arg, annotation) == [kind |-> "arg", arg |-> arg, annotation |-> annotation]

Arguments(posonlyargs, args, vararg, kwonlyargs, kw_defaults, kwarg, defaults) ==
    [kind |-> "arguments", posonlyargs |-> posonlyargs, args |-> args,
     vararg |-> vararg, kwonlyargs |-> kwonlyargs, kw_defaults |-> kw_defaults,
     kwarg |-> kwarg, defaults |-> defaults]

\* (mutant) the defaults lined up with the first parameters instead of the last
AlignedDefaultsLeft(args) ==
    args.defaults \o Repeat(NoneV, Len(args.args) - Len(args.defaults))

\* the defaults as the code lines them up with args.args
AlignedDefaults(args) ==
    Repeat(NoneV, Len(args.args) - Len(args.defaults)) \o args.defaults

\* one entry of args_list
FormatArg(arg, default, config) ==
    <<arg.arg>>
    \o (IF arg.annotation # NoneV
        THEN <<": ">> \o get_annotation(arg.annotation, config) ELSE <<>>)
    \o (IF default # NoneV THEN <<" = ">> \o Unparse(default) ELSE <<>>)

ArgsList(args, config) ==
    LET pairs == Zip(args.args, AlignedDefaults(args))
    IN  [i \in 1..Len(pairs) |-> FormatArg(pairs[i][1], pairs[i][2], config)]

format_function_signature(args, returns, config) ==
    LET return_str == IF returns # NoneV
                      THEN <<" -> ">> \o get_annotation(returns, config)
                      ELSE <<>>
    IN  <<"(">> \o Join(<<", ">>, ArgsList(args, config)) \o <<")">> \o return_str

----------------------------------------------------------------------------
(* Statement nodes.  An identifier whose letters matter (the target of an  *)
(* assignment) is the sequence of its characters.                          *)

Module(body) == [kind |-> "Module", body |-> body]

Import(names) == [kind |-> "Import", names |-> names]

\* module is Str(dotted path), or NoneV for "from . import x"
ImportFrom(module, names) == [kind |-> "ImportFrom", module |-> module, names |-> names]

Alias(name) == [kind |-> "alias", name |-> name]

Assign(targets, value) == [kind |-> "Assign", targets |-> targets, value |-> value]

AnnAssign(target, annotation, value) ==
    [kind |-> "AnnAssign", target |-> target, annotation |-> annotation, value |-> value]

FunctionDef(name, body) == [kind |-> "FunctionDef", name |-> name, body |-> body]

ClassDef(name, body) == [kind |-> "ClassDef", name |-> name, body |-> body]

AsyncFunctionDef(name, body) == [kind |-> "AsyncFunctionDef", name |-> name, body |-> body]

Expr(value) == [kind |-> "Expr", value |-> value]

UpperChars ==
    {"A", "B", "C", "D", "E", "F", "G", "H", "I", "J", "K", "L", "M",
     "N", "O", "P", "Q", "R", "S", "T", "U", "V", "W", "X", "Y", "Z"}

LowerChars ==
    {"a", "b", "c", "d", "e", "f", "g", "h", "i", "j", "k", "l", "m",
     "n", "o", "p", "q", "r", "s", "t", "u", "v", "w", "x", "y", "z"}

\* (mutant) str.isupper without the need of a cased character
IsUpperNoLower(id) == \A i \in 1..Len(id) : id[i] \notin LowerChars

\* str.isupper: at least one cased character, and no lower-case one
IsUpper(id) ==
    /\ \E i \in 1..Len(id) : id[i] \in UpperChars
    /\ \A i \in 1..Len(id) : id[i] \notin LowerChars

----------------------------------------------------------------------------
(* chewdoc/utils.py: extract_constant_values *)

RECURSIVE TargetConstants(_, _)
TargetConstants(targets, value) ==
    IF targets = <<>> THEN <<>>
    ELSE (IF Head(targets).kind = "Name" /\ IsUpper(Head(targets).id)
          THEN <<<<Head(targets).id, Str(Unparse(value))>>>> ELSE <<>>)
         \o TargetConstants(Tail(targets), value)

RECURSIVE BodyConstants(_)
BodyConstants(body) ==
    IF body = <<>> THEN <<>>
    ELSE (IF Head(body).kind = "Assign"
          THEN TargetConstants(Head(body).targets, Head(body).value) ELSE <<>>)
         \o BodyConstants(Tail(body))

\* the (name, value source) pairs, in source order; the source text is a Str
extract_constant_values(node) == BodyConstants(node.body)

----------------------------------------------------------------------------
(* chewdoc/utils.py: validate_ast, find_usage_examples *)

IsAst(node) == "kind" \in DOMAIN node /\ node.kind \notin {"str", "None"}

validate_ast(node) ==
    IF ~IsAst(node)
    THEN Raised("TypeError",
                <<"Invalid AST - expected node, got ",
                  IF IsDict(node) THEN "dict" ELSE IF node = NoneV THEN "NoneType" ELSE "str">>)
    ELSE IF "body" \in DOMAIN node
            /\ \E i \in 1..Len(node.body) : ~IsAst(node.body[i])
    THEN Raised("ValueError", <<"AST contains invalid node types - found serialized data">>)
    ELSE IF "body" \notin DOMAIN node
    THEN Raised("ValueError", <<"Invalid AST structure - missing body attribute">>)
    ELSE IF \E i \in 1..Len(node.body) :
                node.body[i].kind \in {"FunctionDef", "ClassDef", "Assign"}
    THEN Ok(NoneV)
    ELSE IF \E i \in 1..Len(node.body) :
                node.body[i].kind = "Expr" /\ node.body[i].value.kind = "Constant"
    THEN Ok(NoneV)
    ELSE Raised("ValueError", <<"Empty or invalid module AST structure">>)

find_usage_examples(node) == <<>>

----------------------------------------------------------------------------
(* chewed/core.py: _find_imports *)

\* sys.stdlib_module_names, as far as the imports of the model go
StdlibNames == {"os", "sys", "json"}

\* iter_child_nodes, as far as statements go
ChildStmts(node) ==
    IF node.kind \in {"Module", "FunctionDef", "AsyncFunctionDef", "ClassDef"}
    THEN node.body ELSE <<>>

RECURSIVE ChildrenOfAll(_)
ChildrenOfAll(nodes) ==
    IF nodes = <<>> THEN <<>> ELSE ChildStmts(Head(nodes)) \o ChildrenOfAll(Tail(nodes))

\* ast.walk: breadth first, a level after the other
RECURSIVE WalkLevels(_)
WalkLevels(nodes) ==
    IF nodes = <<>> THEN <<>> ELSE nodes \o WalkLevels(ChildrenOfAll(nodes))

Walk(node) == WalkLevels(<<node>>)

\* str(node.module): "None" for a relative import without a module
ModuleText(module) == IF module = NoneV THEN <<"None">> ELSE module.value

CoreFullPath(node, alias) ==
    IF node.kind = "Import" THEN alias.name ELSE ModuleText(node.module) \o alias.name

CoreImportType(full_path) ==
    IF Head(full_path) \in StdlibNames THEN "stdlib" ELSE "external"

CoreImportEntries(node) ==
    IF node.kind \in {"Import", "ImportFrom"}
    THEN [i \in 1..Len(node.names) |->
            [full_path |-> CoreFullPath(node, node.names[i]),
             type |-> CoreImportType(CoreFullPath(node, node.names[i]))]]
    ELSE <<>>

RECURSIVE CoreImportsOfAll(_)
CoreImportsOfAll(nodes) ==
    IF nodes = <<>> THEN <<>>
    ELSE CoreImportEntries(Head(nodes)) \o CoreImportsOfAll(Tail(nodes))

core_find_imports(node, package_root) == CoreImportsOfAll(Walk(node))

----------------------------------------------------------------------------
(* chewdoc/utils.py: _find_imports.  The visitor goes depth first: a        *)
(* statement, then what it holds, then the statement after it.             *)

\* lines 128-134: the paths one import statement gives
UtilsFullPath(node, alias) ==
    IF node.kind = "Import" THEN alias.name
    ELSE IF node.module = NoneV \/ node.module.value = <<>> THEN alias.name
    ELSE node.module.value \o alias.name

\* NodeVisitor.visit over a list of statements, each with generic_visit for
\* what is no import
RECURSIVE UtilsVisitAll(_)
UtilsVisitAll(nodes) ==
    IF nodes = <<>> THEN <<>>
    ELSE LET node == Head(nodes)
         IN  (IF node.kind \in {"Import", "ImportFrom"}
              THEN [i \in 1..Len(node.names) |-> UtilsFullPath(node, node.names[i])]
              ELSE UtilsVisitAll(ChildStmts(node)))
             \o UtilsVisitAll(Tail(nodes))

utils_find_imports(node) == UtilsVisitAll(<<node>>)

----------------------------------------------------------------------------
(* chewdoc/formatters/myst_writer.py: MystWriter._format_imports *)

\* full_path.startswith(package_name + ".")
StartsWithPackage(full_path, package_name) ==
    /\ Len(full_path) > Len(package_name)
    /\ SubSeq(full_path, 1, Len(package_name)) = package_name

\* lines 91-92: a plain string stands for an import of that name
ImportDict(imp) ==
    IF "kind" \in DOMAIN imp /\ imp.kind = "str"
    THEN [name |-> imp.value, full_path |-> imp.value, source |-> <<>>]
    ELSE imp

\* the category of lines 98-103
WriterCategory(full_path, package_name) ==
    IF StartsWithPackage(full_path, package_name) THEN "internal"
    ELSE IF Len(full_path) = 1 THEN "stdlib"
    ELSE "external"

\* "a.b" as text
Dotted(path) == Join(<<".">>, [i \in 1..Len(path) |-> <<path[i]>>])

\* the backquote character
BQ == "<backquote>"

\* the line of one import under its category
WriterLine(imp, package_name) ==
    LET entry == <<BQ>> \o Dotted(imp.name) \o <<BQ>>
                 \o (IF Get(imp, "source", <<>>) # <<>>
                     THEN <<" from ", BQ>> \o Dotted(imp.source) \o <<BQ>> ELSE <<>>)
    IN  IF WriterCategory(imp.full_path, package_name) = "internal"
        THEN <<"- [[">> \o Dotted(imp.full_path) \o <<"|">> \o entry \o <<"]]">>
        ELSE <<"- ">> \o entry

\* sorted(lines): the lines, each with the number of times it occurs
Sorted(lines) ==
    [l \in Range(lines) |-> Cardinality({i \in 1..Len(lines) : lines[i] = l})]

RECURSIVE Categorized(_, _, _)
Categorized(imports, package_name, category) ==
    IF imports = <<>> THEN <<>>
    ELSE LET imp == ImportDict(Head(imports))
         IN  (IF WriterCategory(imp.full_path, package_name) = category
              THEN <<WriterLine(imp, package_name)>> ELSE <<>>)
             \o Categorized(Tail(imports), package_name, category)

WriterSection(imports, package_name, category, title) ==
    IF Categorized(imports, package_name, category) # <<>>
    THEN <<[title |-> title,
            lines |-> Sorted(Categorized(imports, package_name, category))]>>
    ELSE <<>>

\* the sections of the text, in the order they are joined; "No imports" is
\* the empty sequence of sections
writer_format_imports(imports, package_name) ==
    IF \E i \in 1..Len(imports) : \E key \in {"name", "full_path"} :
            key \notin DOMAIN ImportDict(imports[i])
    THEN LET i == CHOOSE j \in 1..Len(imports) :
                    /\ \E key \in {"name", "full_path"} : key \notin DOMAIN ImportDict(imports[j])
                    /\ \A k \in 1..(j - 1) : {"name", "full_path"} \subseteq DOMAIN ImportDict(imports[k])
         IN  Raised("KeyError",
                    IF "name" \notin DOMAIN ImportDict(imports[i])
                    THEN <<"'name'">> ELSE <<"'full_path'">>)
    ELSE Ok(WriterSection(imports, package_name, "stdlib", "### Standard Library")
            \o WriterSection(imports, package_name, "internal", "### Internal Dependencies")
            \o WriterSection(imports, package_name, "external", "### External Dependencies"))

----------------------------------------------------------------------------
(* chewdoc/package_analysis.py: _derive_package_name, analyze_package.     *)
(* A path is the sequence of its parts, a part the sequence of the pieces  *)
(* its hyphens separate, a piece a string (of tokens).  An error message   *)
(* is tokenised so that a phrase looked for in it is one token.            *)

ContainerDirs ==
    {<<<<"src">>>>, <<<<"site">>, <<"packages">>>>, <<<<"dist">>, <<"packages">>>>}

\* a part as text
PartText(part) == Join(<<"-">>, part)

PathText(path) == Join(<<"/">>, [i \in 1..Len(path) |-> PartText(path[i])])

RECURSIVE derive_package_name(_)
derive_package_name(package_path) ==
    IF package_path = <<>> THEN <<"unknown-package">>
    ELSE LET part == package_path[Len(package_path)]
         IN  IF part \in ContainerDirs
             THEN derive_package_name(SubSeq(package_path, 1, Len(package_path) - 1))
             ELSE IF Len(part) > 1 THEN part[1]
             ELSE PartText(part)

\* tempfile.gettempdir()
TempDir == <<<<<<"/">>>>, <<<<"tmp">>>>>>

\* lines 31-35: the directory the analysis works on
AnalysisPath(source, is_local) ==
    IF is_local THEN source.resolved
    ELSE TempDir \o <<<<<<"pypi_">> \o source.text[1]>> \o Tail(source.text)>>

\* the message a failed call logs and raises
NoModulesInPackage == <<"No valid modules found", " in package">>

\* ast_utils is not part of these sources: what it returns is left open
Opaque(what) == [kind |-> "opaque", of |-> what]

\* lines 78-82: the constants of a module record; a later binding of a name
\* replaces an earlier one
ConstantsDict(pairs) ==
    LET upper == {i \in 1..Len(pairs) : IsUpper(pairs[i][1])}
    IN  [name \in {pairs[i][1] : i \in upper} |->
            LET last == CHOOSE i \in upper :
                            /\ pairs[i][1] = name
                            /\ \A j \in upper : pairs[j][1] = name => j <= i
            IN  [value |-> pairs[last][2]]]

\* lines 64-86: the record of one module, or the exception that ends the loop
ModuleInfo(module_data, fs) ==
    IF ~IsDict(module_data)
    THEN Raised("TypeError", <<"string indices must be integers">>)
    ELSE IF "path" \notin DOMAIN module_data THEN Raised("KeyError", <<"'path'">>)
    ELSE IF fs[module_data.path].kind = "unparsable"
    THEN Raised("SyntaxError", <<"invalid syntax">>)
    ELSE LET module_ast == fs[module_data.path]
         IN  IF validate_ast(module_ast).status = "raised" THEN validate_ast(module_ast)
             ELSE IF "name" \notin DOMAIN module_data THEN Raised("KeyError", <<"'name'">>)
             ELSE IF "imports" \notin DOMAIN module_data
             THEN Raised("KeyError", <<"'imports'">>)
             ELSE Ok([name |-> module_data.name,
                      path |-> module_data.path,
                      ast |-> module_ast,
                      docstrings |-> Opaque("extract_docstrings"),
                      type_info |-> Opaque("extract_type_info"),
                      constants |-> ConstantsDict(extract_constant_values(module_ast)),
                      examples |-> find_usage_examples(module_ast),
                      imports |-> module_data.imports,
                      internal_deps |-> Get(module_data, "internal_deps", <<>>)])

\* lines 63-87: the loop stops at the first module that raises
RECURSIVE ModuleLoop(_, _, _)
ModuleLoop(module_paths, fs, done) ==
    IF module_paths = <<>> THEN Ok(done)
    ELSE LET info == ModuleInfo(Head(module_paths), fs)
         IN  IF info.status = "raised" THEN info
             ELSE ModuleLoop(Tail(module_paths), fs, Append(done, info.value))

\* lines 45-98: the body of the try block
AnalysisBody(path, env) ==
    IF env.meta.status = "raised" THEN env.meta
    ELSE IF env.pm.status = "raised" THEN env.pm
    ELSE IF env.pm.value = <<>> THEN Raised("ValueError", NoModulesInPackage)
    ELSE LET package_info == env.meta.value
             package_name == IF Get(package_info, "package", <<>>) # <<>>
                             THEN package_info.package
                             ELSE derive_package_name(path)
             modules == ModuleLoop(env.pm.value, env.fs, <<>>)
         IN  IF modules.status = "raised" THEN modules
             ELSE IF env.rel.status = "raised" THEN env.rel
             ELSE Ok(("package" :> package_name)
                     @@ ("modules" :> modules.value)
                     @@ ("relationships" :> env.rel.value)
                     @@ package_info
                     @@ ("python_requires" :> <<">=3.6">>)
                     @@ ("license" :> <<"Proprietary">>))

\* lines 99-103: what reaches the caller, and what is logged
chewdoc_analyze_package(source, is_local, env) ==
    LET path == AnalysisPath(source, is_local)
        body == AnalysisBody(path, env)
    IN  IF body.status = "ok" THEN [out |-> body, log |-> <<>>]
        ELSE IF body.exc = "SyntaxError"
        THEN [out |-> Raised("ValueError",
                             <<"Syntax error in ">> \o PathText(path) \o <<": ">> \o body.msg),
              log |-> <<>>]
        ELSE [out |-> Raised("RuntimeError", <<"Package analysis failed: ">> \o body.msg),
              log |-> <<[level |-> "error",
                         msg |-> <<"Package analysis failed: ">> \o body.msg]>>]

\* lines 36-37: the staging directory of a package that is not local
StagingDirs(source, is_local) ==
    IF is_local THEN {} ELSE {AnalysisPath(source, is_local)}

----------------------------------------------------------------------------
(* chewed/core.py: process_package_modules.  A file of the directory is a  *)
(* record of its path, the path it resolves to, its size, and what         *)
(* process_modules does when given it alone.                               *)

LogRecord(level, msg) == [level |-> level, msg |-> msg]

\* fnmatch.fnmatch over tokens: "*" stands for any run of tokens
RECURSIVE Fnmatch(_, _)
Fnmatch(name, pattern) ==
    IF pattern = <<>> THEN name = <<>>
    ELSE IF Head(pattern) = "*"
    THEN Fnmatch(name, Tail(pattern)) \/ (name # <<>> /\ Fnmatch(Tail(name), pattern))
    ELSE name # <<>> /\ Head(name) = Head(pattern) /\ Fnmatch(Tail(name), Tail(pattern))

IsExcluded(py_file, config) ==
    \E i \in 1..Len(config.exclude_patterns) :
        Fnmatch(py_file.path, config.exclude_patterns[i])

\* (mutant) every __init__.py is skipped, whatever its size
IsEmptyInitByName(py_file) ==
    /\ Len(py_file.path) >= 2
    /\ SubSeq(py_file.path, Len(py_file.path) - 1, Len(py_file.path)) = <<"__init__", ".py">>

\* line 82: py_file.name == "__init__.py" and py_file.stat().st_size == 0
IsEmptyInit(py_file) ==
    /\ Len(py_file.path) >= 2
    /\ SubSeq(py_file.path, Len(py_file.path) - 1, Len(py_file.path)) = <<"__init__", ".py">>
    /\ py_file.size = 0

\* line 69
AlreadyProcessed(py_file, processed_files) == py_file.resolved \in processed_files

\* lines 66-101: the loop over the files of the directory
RECURSIVE ScanFiles(_, _, _, _, _)
ScanFiles(files, config, modules, processed_files, log) ==
    IF files = <<>> THEN [out |-> Ok(modules), log |-> log]
    ELSE LET py_file == Head(files)
             rest == Tail(files)
         IN  IF AlreadyProcessed(py_file, processed_files)
             THEN ScanFiles(rest, config, modules, processed_files,
                     Append(log, LogRecord("debug",
                         <<"Skipping already processed file: ">> \o py_file.path)))
             ELSE IF IsExcluded(py_file, config)
             THEN ScanFiles(rest, config, modules, processed_files,
                     Append(log, LogRecord("debug",
                         <<"Skipping excluded file: ">> \o py_file.path)))
             ELSE IF IsEmptyInit(py_file)
             THEN ScanFiles(rest, config, modules, processed_files,
                     Append(log, LogRecord("debug",
                         <<"Skipping empty __init__.py file: ">> \o py_file.path)))
             ELSE IF py_file.outcome.status = "raised"
             THEN ScanFiles(rest, config, modules, processed_files,
                     Append(log,
                         IF py_file.outcome.exc = "SyntaxError"
                         THEN LogRecord("warning", <<"Syntax error in ">> \o py_file.path)
                         ELSE LogRecord("warning",
                                  <<"Failed to process ">> \o py_file.path \o <<": ">>
                                  \o py_file.outcome.msg)))
             ELSE IF py_file.outcome.value # <<>>
             THEN ScanFiles(rest, config, modules \o py_file.outcome.value,
                     processed_files \cup {py_file.resolved}, log)
             ELSE ScanFiles(rest, config, modules, processed_files,
                     log \o <<LogRecord("error", <<"No valid modules found">>),
                              LogRecord("warning",
                                  <<"Failed to process ">> \o py_file.path \o <<": ">>
                                  \o <<"No valid modules found">>)>>)

process_package_modules(files, config) == ScanFiles(files, config, <<>>, {}, <<>>)

----------------------------------------------------------------------------
(* chewed/core.py: analyze_package *)

NoValidModules == <<"No valid modules found">>

\* line 157
EmptyRelationships == [dependency_graph |-> EmptyDict, external_deps |-> <<>>]

\* (mutant) the entries are taken as they come
CoreValidModulesUnchecked(modules) == modules

\* lines 137-142: the entries that are dicts with a name
CoreValidModules(modules) ==
    SelectSeq(modules, LAMBDA m : IsDict(m) /\ "name" \in DOMAIN m)

CoreSkipLog(modules) ==
    [i \in 1..(Len(modules) - Len(CoreValidModules(modules))) |->
        LogRecord("warning", <<"Skipping invalid module">>)]

\* lines 151-157: the relationships, the empty graph when the analysis raises
CoreRelationships(rel) == IF rel.status = "raised" THEN Ok(EmptyRelationships) ELSE rel

CoreRelationshipsLog(rel) ==
    IF rel.status = "raised"
    THEN <<LogRecord("error", <<"Failed to analyze relationships: ">> \o rel.msg)>>
    ELSE <<>>

\* lines 117-166: the body of the outer try block
CoreBody(source, env) ==
    IF ~env.exists
    THEN [out |-> Raised("ValueError",
                         <<"Source path does not exist: ">> \o PathText(source.resolved)),
          log |-> <<LogRecord("error",
                        <<"Source path does not exist: ">> \o PathText(source.resolved))>>]
    ELSE IF env.pm.status = "raised"
    THEN [out |-> Raised("RuntimeError", NoValidModules),
          log |-> <<LogRecord("error", <<"Failed to process modules: ">> \o env.pm.msg)>>]
    ELSE IF env.pm.value = <<>>
    THEN [out |-> Raised("RuntimeError", NoValidModules),
          log |-> <<LogRecord("error", NoValidModules),
                    LogRecord("error", <<"Failed to process modules: ">> \o NoValidModules)>>]
    ELSE IF CoreValidModules(env.pm.value) = <<>>
    THEN [out |-> Raised("RuntimeError", NoValidModules),
          log |-> CoreSkipLog(env.pm.value)
                  \o <<LogRecord("error", <<"No valid modules found after validation">>)>>]
    ELSE IF env.name.status = "raised"
    THEN [out |-> env.name, log |-> CoreSkipLog(env.pm.value)]
    ELSE IF CoreRelationships(env.rel).status = "raised"
    THEN [out |-> CoreRelationships(env.rel), log |-> CoreSkipLog(env.pm.value)]
    ELSE IF env.meta.status = "raised"
    THEN [out |-> env.meta,
          log |-> CoreSkipLog(env.pm.value) \o CoreRelationshipsLog(env.rel)]
    ELSE [out |-> Ok([package |-> env.name.value,
                      path |-> PathText(source.resolved),
                      modules |-> CoreValidModules(env.pm.value),
                      relationships |-> CoreRelationships(env.rel).value,
                      metadata |-> env.meta.value]),
          log |-> CoreSkipLog(env.pm.value) \o CoreRelationshipsLog(env.rel)]

\* lines 168-173: what reaches the caller
core_analyze_package(source, env) ==
    LET body == CoreBody(source, env)
    IN  IF body.out.status = "ok" THEN body
        ELSE IF body.out.exc \in {"RuntimeError", "ValueError"}
        THEN [out |-> body.out,
              log |-> Append(body.log,
                        LogRecord("error", <<"Runtime or value error occurred during analysis">>))]
        ELSE [out |-> Raised("RuntimeError", NoValidModules),
              log |-> Append(body.log,
                        LogRecord("error", <<"Package analysis failed: ">> \o body.out.msg))]

----------------------------------------------------------------------------
(* chewed/core.py: cli.  What a run of the command leaves behind is its    *)
(* exit code and what it wrote to the terminal.  The command runs as a      *)
(* process of its own, or under click.testing.CliRunner as in the tests.    *)

\* the name of an exception class, cut before its last word
ExcNameTokens(exc) ==
    CASE exc = "ValueError" -> <<"Value", "Error">>
      [] exc = "RuntimeError" -> <<"Runtime", "Error">>
      [] exc = "OSError" -> <<"OS", "Error">>
      [] OTHER -> <<exc>>

\* what the interpreter writes for an exception nobody caught
Traceback(raised) ==
    <<"Traceback (most recent call last):", "\n">>
    \o ExcNameTokens(raised.exc) \o <<": ">> \o raised.msg \o <<"\n">>

\* the records the handler of last resort of logging writes: warnings and errors
RECURSIVE LoggedLines(_)
LoggedLines(log) ==
    IF log = <<>> THEN <<>>
    ELSE (IF Head(log).level \in {"warning", "error"}
          THEN Head(log).msg \o <<"\n">> ELSE <<>>)
         \o LoggedLines(Tail(log))

\* line 19: click.Path(exists=True) turns a missing source down
SourceMissing(source) ==
    [exit_code |-> 2,
     output |-> <<"Usage: cli [OPTIONS] SOURCE", "\n", "Error", ": ",
                  "Invalid value for 'SOURCE': Path '">> \o PathText(source.resolved)
                \o <<"' does not exist.", "\n">>]

\* an exception that leaves the command: click lets it through; the process
\* ends with the traceback and exit code 1, the test runner keeps the
\* exception and reports exit code 1 with nothing written for it
Uncaught(raised, written, harness) ==
    [exit_code |-> 1,
     output |-> written \o (IF harness = "process" THEN Traceback(raised) ELSE <<>>)]

\* lines 25-34
cli(source, env, generate_docs, harness) ==
    IF ~env.exists THEN SourceMissing(source)
    ELSE LET package_info == core_analyze_package(source, env)
             written == LoggedLines(package_info.log)
         IN  IF package_info.out.status = "raised"
             THEN Uncaught(package_info.out, written, harness)
             ELSE IF generate_docs.status = "raised"
             THEN Uncaught(generate_docs, written, harness)
             ELSE [exit_code |-> 0, output |-> written]

----------------------------------------------------------------------------
(* chewdoc/utils.py: infer_responsibilities *)

\* the names a clause lists before it truncates
ShownNames == 3

\* a mapping in insertion order: the sequence of its (key, value) items
DictOf(items) == [shape |-> "dict", items |-> items]

ListOf(items) == [shape |-> "list", items |-> items]

\* the records safe_get_names iterates over: the values of a dict, the items of
\* a list
Records(coll) ==
    IF coll.shape = "dict" THEN [i \in 1..Len(coll.items) |-> coll.items[i].value]
    ELSE coll.items

RECURSIVE NamesOfRecords(_)
NamesOfRecords(recs) ==
    IF recs = <<>> THEN <<>>
    ELSE (IF Get(Head(recs), "name", "") # "" THEN <<Head(recs).name>> ELSE <<>>)
         \o NamesOfRecords(Tail(recs))

safe_get_names(items) == NamesOfRecords(Records(items))

\* (mutant) the suffix already at ShownNames names
ClauseEarlySuffix(label, names) ==
    <<label>> \o Join(<<", ">>, [i \in 1..Len(Take(names, ShownNames)) |-> <<names[i]>>])
    \o (IF Len(names) >= ShownNames
        THEN <<" (+", ToString(Len(names) - ShownNames), " more)">> ELSE <<>>)

\* one clause: the label, the first names, and the count of the names left out
Clause(label, names) ==
    <<label>> \o Join(<<", ">>, [i \in 1..Len(Take(names, ShownNames)) |-> <<names[i]>>])
    \o (IF Len(names) > ShownNames
        THEN <<" (+", ToString(Len(names) - ShownNames), " more)">> ELSE <<>>)

\* module.get(key) is truthy: the key is there and its collection is not empty
HasCategory(module, key) == key \in DOMAIN module /\ module[key].items # <<>>

CategoryClause(module, key, label) ==
    IF HasCategory(module, key)
    THEN <<Clause(label, safe_get_names(module[key]))>> ELSE <<>>

Responsibilities(module) ==
    CategoryClause(module, "classes", "Defines core classes: ")
    \o CategoryClause(module, "functions", "Provides key functions: ")
    \o CategoryClause(module, "constants", "Contains constants: ")

infer_responsibilities(module) ==
    IF Responsibilities(module) = <<>>
    THEN <<"General utility module with mixed responsibilities">>
    ELSE Join(<<"\n- ">>, <<<<>>>> \o Responsibilities(module))

----------------------------------------------------------------------------
(* chewdoc/formatters/myst_writer.py: MystWriter._get_module_description,  *)
(* given a module record of the package analyzer                           *)

\* the items of the constants dict of a module record, in insertion order: a
\* name stands where it is first bound and holds the value bound last
RECURSIVE ConstantsItems(_, _)
ConstantsItems(pairs, constants) ==
    IF pairs = <<>> THEN <<>>
    ELSE LET rest == ConstantsItems(SubSeq(pairs, 1, Len(pairs) - 1), constants)
             name == pairs[Len(pairs)][1]
         IN  IF name \notin DOMAIN constants
                \/ \E i \in 1..Len(rest) : rest[i].key = name
             THEN rest
             ELSE Append(rest, [key |-> name, value |-> constants[name]])

\* what module.get("classes"), .get("functions") and .get("constants") find in
\* the record of lines 72-86 of package_analysis.py: it has no classes and no
\* functions key
CategoriesOf(module) ==
    IF "constants" \in DOMAIN module
    THEN [constants |->
            DictOf(ConstantsItems(extract_constant_values(module.ast), module.constants))]
    ELSE EmptyDict

get_module_description(module) ==
    IF "docstrings" \in DOMAIN module
       /\ IsDict(module.docstrings)
       /\ "module:1" \in DOMAIN module.docstrings
    THEN module.docstrings["module:1"]
    ELSE infer_responsibilities(CategoriesOf(module))

----------------------------------------------------------------------------
(* chewdoc/config.py: ChewdocConfig; MystWriter.__init__ and generate *)

\* ChewdocConfig(): the defaults of the fields.  The three defaults that
\* chewdoc.constants supplies are named, their values are not used
ChewdocConfig ==
    [exclude_patterns |-> <<<<"DEFAULT_EXCLUSIONS">>>>,
     template_version |-> "TEMPLATE_VERSION",
     known_types |-> ("TYPE_ALIASES" :> "TYPE_ALIASES"),
     output_format |-> "myst",
     template_dir |-> "None",
     enable_cross_references |-> TRUE,
     max_example_lines |-> 10]

\* getattr(obj, name, default)
GetAttr(obj, name, default) == IF name \in DOMAIN obj THEN obj[name] ELSE default

\* line 19 with every example cut to fifteen lines whatever was configured
WriterInitConfigFifteen(config) == [config EXCEPT !.max_example_lines = 15]

\* line 19: self.config.max_example_lines = getattr(self.config, ..., 15)
WriterInitConfig(config) ==
    [config EXCEPT !.max_example_lines = GetAttr(config, "max_example_lines", 15)]

\* lines 17-19: the object the writer keeps, and the objects after the
\* constructor; without an argument the writer makes its own
WriterInit(objects, config) ==
    LET ref == IF config = "None" THEN "fresh" ELSE config
        obj == IF config = "None" THEN ChewdocConfig ELSE objects[config]
    IN  [self |-> [config |-> ref, package_data |-> EmptyDict],
         objects |-> [objects EXCEPT ![ref] = WriterInitConfig(obj)]]

\* lines 27-32: the defaults of the fields a page needs
WithDefaults(package_data) ==
    LET named == package_data @@ [name |-> <<"Unknown Package">>]
    IN  named @@ [package |-> named.name,
                  version |-> <<"0.0.0">>,
                  author |-> <<"Unknown">>,
                  license |-> <<"Not specified">>,
                  python_requires |-> <<">=3.6">>]

\* lines 21-50: the package data the writer keeps and the files it writes, one
\* per module and the index; the text of a page is left out
generate(self, package_data) ==
    IF package_data = EmptyDict \/ "modules" \notin DOMAIN package_data
    THEN Raised("ValueError", <<"Invalid package data">>)
    ELSE LET data == WithDefaults(package_data)
             modules == data.modules
         IN  IF \E i \in 1..Len(modules) : "name" \notin DOMAIN modules[i]
             THEN Raised("KeyError", <<"'name'">>)
             ELSE Ok([self |-> [self EXCEPT !.package_data = data],
                      files |-> [i \in 1..Len(modules) |-> modules[i].name \o <<".md">>]
                                \o <<<<"index.md">>>>])

----------------------------------------------------------------------------
(* chewdoc/formatters/myst_writer.py: MystWriter.extract_docstrings *)

\* a string literal: a Constant whose value is the text
StrConstant(text) == [kind |-> "Constant", repr |-> "<str>", text |-> text]

\* inspect.cleandoc, as far as blank lines at the ends go
RECURSIVE CleanDoc(_)
CleanDoc(text) ==
    IF text = <<>> THEN <<>>
    ELSE IF Head(text) = "\n" THEN CleanDoc(Tail(text))
    ELSE IF text[Len(text)] = "\n" THEN CleanDoc(SubSeq(text, 1, Len(text) - 1))
    ELSE text

\* ast.get_docstring(child, clean=True): None without a leading string literal
GetDocstring(child) ==
    IF child.body # <<>>
       /\ child.body[1].kind = "Expr"
       /\ child.body[1].value.kind = "Constant"
       /\ "text" \in DOMAIN child.body[1].value
    THEN Str(CleanDoc(child.body[1].value.text))
    ELSE NoneV

\* line 272: the kind of the node and its name, "module" for what has no name
DocKey(child) == <<child.kind, ":", IF "name" \in DOMAIN child THEN child.name ELSE "module">>

\* lines 273-277: the entry of a docstring.  A Module has no lineno, and the
\* class has no _get_code_context method
DocEntry(child, docstring) ==
    IF child.kind = "Module"
    THEN Raised("AttributeError", <<"'Module' object has no attribute 'lineno'">>)
    ELSE Raised("AttributeError",
                <<"'MystWriter' object has no attribute '_get_code_context'">>)

\* lines 267-279: the (key, entry) pairs that were stored, in the order of the
\* walk; a node whose entry raises is passed over
RECURSIVE DocPairs(_)
DocPairs(nodes) ==
    IF nodes = <<>> THEN <<>>
    ELSE LET child == Head(nodes)
             documented ==
                 /\ child.kind \in {"Module", "ClassDef", "FunctionDef"}
                 /\ GetDocstring(child) # NoneV
                 /\ GetDocstring(child).value # <<>>
         IN  (IF documented /\ DocEntry(child, GetDocstring(child).value).status = "ok"
              THEN <<[key |-> DocKey(child),
                      entry |-> DocEntry(child, GetDocstring(child).value).value]>>
              ELSE <<>>)
             \o DocPairs(Tail(nodes))

\* the dict of the pairs: a later pair of a key replaces an earlier one
writer_extract_docstrings(node) ==
    LET pairs == DocPairs(Walk(node))
    IN  [key \in {pairs[i].key : i \in 1..Len(pairs)} |->
            pairs[CHOOSE i \in 1..Len(pairs) :
                    /\ pairs[i].key = key
                    /\ \A j \in (i + 1)..Len(pairs) : pairs[j].key # key].entry]

----------------------------------------------------------------------------
(* chewdoc/formatters/myst_writer.py: MystWriter._format_function_signature *)

\* bool(d.get(key)) for a dict-valued key
Truthy(d, key) == key \in DOMAIN d /\ d[key] # EmptyDict

\* a Constant node whose value is a type object, such as ast.Constant(value=int)
TypeConstant(name) == [kind |-> "Constant", repr |-> "<class>", type_name |-> name]

\* the first element of a list of serialized parameters that has no 'arg' key
MissingArg(items) == \E i \in 1..Len(items) : "arg" \notin DOMAIN items[i]

\* [ast.arg(arg=a['arg']) for a in items]
ArgNodes(items) == [i \in 1..Len(items) |-> Arg(items[i].arg, NoneV)]

\* whether building ast.arguments from the serialized form raises KeyError
ArgumentsKeyError(d) ==
    \/ MissingArg(Get(d, "posonlyargs", <<>>))
    \/ MissingArg(Get(d, "args", <<>>))
    \/ Truthy(d, "vararg") /\ "arg" \notin DOMAIN d.vararg
    \/ MissingArg(Get(d, "kwonlyargs", <<>>))
    \/ Truthy(d, "kwarg") /\ "arg" \notin DOMAIN d.kwarg

\* the ast.arguments node built from the serialized form
ArgumentsFromDict(d) ==
    Arguments(ArgNodes(Get(d, "posonlyargs", <<>>)),
              ArgNodes(Get(d, "args", <<>>)),
              IF Truthy(d, "vararg") THEN Arg(d.vararg.arg, NoneV) ELSE NoneV,
              ArgNodes(Get(d, "kwonlyargs", <<>>)),
              Get(d, "kw_defaults", <<>>),
              IF Truthy(d, "kwarg") THEN Arg(d.kwarg.arg, NoneV) ELSE NoneV,
              Get(d, "defaults", <<>>))

\* the expressions ast.parse reads back
ParsableExprs == {Name("int"), Subscript(Name("Sequence"), Name("int"))}

IsParsable(src) == \E e \in ParsableExprs : Unparse(e) = src

\* ast.parse(src).body[0].value
ParseExpr(src) == CHOOSE e \in ParsableExprs : Unparse(e) = src

\* lines 237-238: the return annotation, read back from its serialized form
ReturnsOutcome(returns_node) ==
    IF ~IsDict(returns_node) THEN Ok(returns_node)
    ELSE IF returns_node = EmptyDict THEN Ok(NoneV)
    ELSE IF "value" \notin DOMAIN returns_node THEN Raised("KeyError", <<"'value'">>)
    ELSE IF ~IsParsable(returns_node.value)
         THEN Raised("SyntaxError", <<"invalid syntax">>)
    ELSE Ok(ParseExpr(returns_node.value))

\* lines 241-242: a type constant becomes the name of the type
TypeConstantToName(returns_node) ==
    IF returns_node.kind = "Constant" /\ "type_name" \in DOMAIN returns_node
    THEN Name(returns_node.type_name)
    ELSE returns_node

writer_format_function_signature(func_info, config) ==
    LET args_node == Get(func_info, "args", NoneV)
        returns_node == Get(func_info, "returns", NoneV)
    IN  IF IsDict(args_node) /\ ArgumentsKeyError(args_node)
        THEN Raised("ValueError", <<"Malformed arguments node: ", "'arg'">>)
        ELSE LET args == IF IsDict(args_node) THEN ArgumentsFromDict(args_node)
                         ELSE args_node
                 ret == ReturnsOutcome(returns_node)
             IN  IF ret.status = "raised" THEN ret
                 ELSE IF args = NoneV
                 THEN Raised("AttributeError",
                             <<"'NoneType' object has no attribute 'args'">>)
                 ELSE Ok(format_function_signature(
                             args, TypeConstantToName(ret.value), config))

----------------------------------------------------------------------------
(* Inputs *)

\* config.known_types: no alias, or one alias
NoAliases == [n \in {} |-> n]

ConfigSet == {[known_types |-> NoAliases], [known_types |-> ("Sequence" :> "Seq")]}

AtomExprs ==
    {Name("int"), Name("Sequence"), Constant("10"),
     Attribute(Name("typing"), "Sequence")}

AnnExprs ==
    AtomExprs
    \cup {Subscript(b, s) : b \in {Name("Sequence"), Name("Dict")}, s \in AtomExprs}
    \cup {Subscript(b, TupleNode(<<s, t>>)) :
            b \in {Name("Dict")}, s \in AtomExprs, t \in {Name("Sequence"), Name("int")}}
    \cup {Subscript(Name("Sequence"), Subscript(Name("Sequence"), Name("int")))}

ParamNames == <<"a", "b", "c", "d", "e">>

ParamAnnotations == {NoneV, Name("Sequence"), Subscript(Name("Sequence"), Name("int"))}

DefaultExprs == {Constant("1"), Name("None")}

ArgumentsSet ==
    {Arguments(<<>>, [i \in 1..n |-> Arg(ParamNames[i], anns[i])], NoneV, <<>>, <<>>,
               NoneV, defaults) :
        n \in 0..MaxParams, anns \in [1..MaxParams -> ParamAnnotations],
        defaults \in SeqsUpTo(DefaultExprs, MaxDefaults)}

\* an optional key of a serialized form
Opt(key, present, v) == IF present THEN key :> v ELSE EmptyDict

SerializedParam == {[arg |-> "a"], [name |-> "a"]}

SerializedArgsSet ==
    {Opt("posonlyargs", po.p, po.v) @@ Opt("args", ar.p, ar.v)
     @@ Opt("vararg", va.p, va.v) @@ Opt("kwarg", kw.p, kw.v)
     @@ Opt("defaults", de.p, de.v) :
        po \in {[p |-> FALSE, v |-> <<>>], [p |-> TRUE, v |-> <<[name |-> "p"]>>]},
        ar \in {[p |-> FALSE, v |-> <<>>]}
               \cup {[p |-> TRUE, v |-> v] : v \in SeqsUpTo(SerializedParam, 2)},
        va \in {[p |-> FALSE, v |-> EmptyDict]}
               \cup {[p |-> TRUE, v |-> v] : v \in {EmptyDict, [arg |-> "rest"], [name |-> "rest"]}},
        kw \in {[p |-> FALSE, v |-> EmptyDict], [p |-> TRUE, v |-> [name |-> "kw"]]},
        de \in {[p |-> FALSE, v |-> <<>>], [p |-> TRUE, v |-> <<Constant("1")>>]}}

NativeArgsSet ==
    {Arguments(<<>>, <<Arg("a", Name("int"))>>, NoneV, <<>>, <<>>, NoneV, <<>>),
     Arguments(<<>>, <<>>, NoneV, <<>>, <<>>, NoneV, <<>>)}

ReturnsSet ==
    {NoneV, Name("str"), TypeConstant("int"), EmptyDict,
     [value |-> <<"int">>], [value |-> <<"Sequence", "[", "int", "]">>],
     [value |-> <<"int", "[">>], [type |-> <<"int">>]}

FuncInfoSet ==
    {Opt("args", a.p, a.v) @@ Opt("returns", r.p, r.v) :
        a \in {[p |-> FALSE, v |-> NoneV]}
              \cup {[p |-> TRUE, v |-> v] : v \in SerializedArgsSet \cup NativeArgsSet},
        r \in {[p |-> FALSE, v |-> NoneV]}
              \cup {[p |-> TRUE, v |-> v] : v \in ReturnsSet}}

ItemNames == <<"n1", "n2", "n3", "n4", "n5", "n6">>

\* the record of item i: named, or without a name key
ItemRecord(i, pattern) ==
    IF pattern = "none" \/ (pattern = "gap" /\ i = 2)
    THEN [doc |-> "text"] ELSE [name |-> ItemNames[i]]

\* a category of k items, as a mapping keyed by name or as a list of records
Collection(shape, k, pattern) ==
    IF shape = "dict"
    THEN DictOf([i \in 1..k |-> [key |-> ItemNames[i], value |-> ItemRecord(i, pattern)]])
    ELSE ListOf([i \in 1..k |-> ItemRecord(i, pattern)])

CollectionSet ==
    {Collection(shape, k, pattern) :
        shape \in {"dict", "list"}, k \in 0..MaxItems, pattern \in {"all", "gap", "none"}}

OptCollection == {[p |-> FALSE, v |-> ListOf(<<>>)]} \cup {[p |-> TRUE, v |-> c] : c \in CollectionSet}

ModuleContentsSet ==
    {Opt("classes", c.p, c.v) @@ Opt("functions", f.p, f.v) @@ Opt("constants", k.p, k.v) :
        c \in OptCollection, f \in OptCollection, k \in OptCollection}

MAX == <<"M", "A", "X">>

\* the statements the constant extractor is tried on
ConstantStmts ==
    {Assign(<<Name(MAX)>>, Constant("10")),
     Assign(<<Name(<<"_", "p", "r", "i", "v">>)>>, Constant("1")),
     Assign(<<Name(MAX)>>, Name("other")),
     Assign(<<Name(<<"_", "A", "1">>), Name(<<"M", "a", "x">>)>>, Constant("'a'")),
     Assign(<<Name(<<"_", "1">>)>>, Constant("0")),
     Assign(<<TupleNode(<<Name(<<"X">>), Name(<<"Y">>)>>)>>,
            TupleNode(<<Constant("1"), Constant("2")>>)),
     Assign(<<Attribute(Name("obj"), "ATTR")>>, Constant("3")),
     AnnAssign(Name(<<"L", "I", "M">>), Name("int"), Constant("5")),
     FunctionDef("foo", <<Assign(<<Name(<<"I", "N">>)>>, Constant("4"))>>),
     ClassDef("Bar", <<Assign(<<Name(<<"K">>)>>, Constant("6"))>>)}

ConstantModules == {Module(body) : body \in SeqsUpTo(ConstantStmts, MaxBody)}

\* the import statements the classifier is tried on
FlatImportStmts ==
    {Import(<<Alias(<<"os">>)>>),
     Import(<<Alias(<<"os", "path">>), Alias(<<"requests">>)>>),
     Import(<<Alias(<<"pkg", "utils">>)>>),
     Import(<<Alias(<<"pkgs", "utils">>)>>),
     ImportFrom(Str(<<"pkg">>), <<Alias(<<"utils">>)>>),
     ImportFrom(Str(<<"json">>), <<Alias(<<"loads">>), Alias(<<"dumps">>)>>),
     ImportFrom(Str(<<"requests", "adapters">>), <<Alias(<<"HTTPAdapter">>)>>),
     ImportFrom(NoneV, <<Alias(<<"sibling">>)>>)}

ImportStmts ==
    FlatImportStmts
    \cup {FunctionDef("f", <<s>>) :
            s \in {Import(<<Alias(<<"sys">>)>>), ImportFrom(Str(<<"pkg", "core">>), <<Alias(<<"run">>)>>)}}
    \cup {ClassDef("K", <<FunctionDef("m", <<Import(<<Alias(<<"numpy">>)>>)>>)>>)}

ImportModules == {Module(body) : body \in SeqsUpTo(ImportStmts, MaxImportStmts)}

PackageNames == {<<"pkg">>, <<"other">>}

\* the import entries the writer is given: plain strings, full entries, and
\* entries as core._find_imports builds them
WriterImports ==
    {Str(<<"os">>), Str(<<"requests">>), Str(<<"os", "path">>), Str(<<"pkg", "utils">>),
     [name |-> <<"utils">>, full_path |-> <<"pkg", "utils">>, source |-> <<"pkg">>],
     [name |-> <<"loads">>, full_path |-> <<"json", "loads">>, source |-> <<"json">>],
     [name |-> <<"numpy">>, full_path |-> <<"numpy">>],
     [full_path |-> <<"os">>, type |-> "stdlib"]}

\* a path part without a hyphen
Part(token) == <<<<token>>>>

\* what is analysed: a local path (/work/proj, /work/my-pkg-1.2.3/src), or the
\* name of a package to download (my-pkg)
SourceSet ==
    {[is_local |-> TRUE,
      source |-> [text |-> <<<<"work/proj">>>>,
                  resolved |-> <<Part("/"), Part("work"), Part("proj")>>]],
     [is_local |-> TRUE,
      source |-> [text |-> <<<<"work/my">>, <<"pkg">>, <<"1.2.3/src">>>>,
                  resolved |-> <<Part("/"), Part("work"),
                                 <<<<"my">>, <<"pkg">>, <<"1.2.3">>>>, Part("src")>>]],
     [is_local |-> FALSE,
      source |-> [text |-> <<<<"my">>, <<"pkg">>>>,
                  resolved |-> <<Part("/"), Part("work"), <<<<"my">>, <<"pkg">>>>>>]]}

ModulePaths == <<"a.py", "b.py", "c.py", "d.py">>

ModuleNames == <<<<"a">>, <<"b">>, <<"c">>, <<"d">>>>

Unparsable == [kind |-> "unparsable"]

\* MAX = 10; _priv = 1; def foo(): ...; class Bar: ...
ScenarioModule ==
    Module(<<Assign(<<Name(MAX)>>, Constant("10")),
             Assign(<<Name(<<"_", "p", "r", "i", "v">>)>>, Constant("1")),
             FunctionDef("foo", <<>>),
             ClassDef("Bar", <<>>)>>)

ImportOnlyModule == Module(<<Import(<<Alias(<<"os">>)>>)>>)

\* what a module file holds
FileContents ==
    {Unparsable, ImportOnlyModule, ScenarioModule,
     Module(<<Expr(Constant("'doc'")), AnnAssign(Name(MAX), Name("int"), Constant("5"))>>)}

\* the i-th entry process_modules returns: a full record, a record without a
\* name, or something that is no dict
ModuleEntry(i, shape) ==
    CASE shape = "full" ->
            [name |-> ModuleNames[i], path |-> ModulePaths[i], imports |-> <<>>]
      [] shape = "noname" -> [path |-> ModulePaths[i], imports |-> <<>>]
      [] shape = "nodict" -> Str(ModuleNames[i])

EntrySeqs ==
    UNION {{[i \in 1..n |-> ModuleEntry(i, shapes[i])] :
                shapes \in [1..n -> {"full", "noname", "nodict"}]} : n \in 0..MaxModules}

\* the files the entries name; the others hold a plain module
FsFor(entries, contents) ==
    [p \in Range(ModulePaths) |->
        IF \E i \in 1..Len(entries) : ModulePaths[i] = p /\ i <= Len(contents)
        THEN contents[CHOOSE i \in 1..Len(entries) : ModulePaths[i] = p]
        ELSE ScenarioModule]

ProcessModulesOutcomes ==
    {Raised("SyntaxError", <<"invalid syntax">>), Raised("ValueError", <<"no such package">>)}
    \cup {Ok(e) : e \in EntrySeqs}

MetadataOutcomes ==
    {Raised("ConnectionError", <<"metadata unavailable">>),
     Ok([package |-> <<"pkg">>, version |-> <<"1.0">>, license |-> <<"MIT">>]),
     Ok([version |-> <<"1.0">>])}

RelationshipOutcomes ==
    {Raised("AttributeError", <<"'str' object has no attribute 'get'">>),
     Ok([dependency_graph |-> (<<"a">> :> {}), external_deps |-> <<<<"requests">>>>])}

\* what the collaborators of chewdoc's analyze_package do in one call
ChewdocEnvs ==
    {[meta |-> meta, pm |-> pm, fs |-> FsFor(IF pm.status = "ok" THEN pm.value ELSE <<>>, contents),
      rel |-> rel] :
        meta \in MetadataOutcomes, pm \in ProcessModulesOutcomes,
        contents \in [1..MaxModules -> FileContents], rel \in RelationshipOutcomes}

\* the docstrings of a module record: none, or one under the key the writer
\* looks for
DocstringsSet == {EmptyDict, ("module:1" :> <<"A documented module">>)}

\* the module records the package analyzer builds from the file contents
AnalyzedModules ==
    {[ModuleInfo(ModuleEntry(1, "full"),
                 [p \in Range(ModulePaths) |-> content]).value EXCEPT !.docstrings = docs] :
        content \in {c \in FileContents :
                        ModuleInfo(ModuleEntry(1, "full"),
                                   [p \in Range(ModulePaths) |-> c]).status = "ok"},
        docs \in DocstringsSet}

NameOutcomes == {Raised("ValueError", <<"no package name">>), Ok(<<"pkg">>)}

\* what the collaborators of core's analyze_package do in one call
CoreEnvs ==
    {[exists |-> exists, pm |-> pm, name |-> name, rel |-> rel, meta |-> meta] :
        exists \in BOOLEAN, pm \in ProcessModulesOutcomes, name \in NameOutcomes,
        rel \in RelationshipOutcomes, meta \in MetadataOutcomes}

\* the statements validate_ast is tried on: the last is a statement in
\* serialized form
ValidatedStmts ==
    {Import(<<Alias(<<"os">>)>>),
     Expr(Constant("'doc'")),
     Expr(Constant("1")),
     Expr(Name("x")),
     Assign(<<Name(MAX)>>, Constant("10")),
     AnnAssign(Name(MAX), Name("int"), Constant("5")),
     FunctionDef("foo", <<>>),
     AsyncFunctionDef("serve", <<>>),
     ClassDef("Bar", <<>>),
     [type |-> "FunctionDef", name |-> "foo"]}

ValidatedNodes ==
    {Module(body) : body \in SeqsUpTo(ValidatedStmts, MaxBody)}
    \cup {Str(<<"import os">>), NoneV, [body |-> <<>>], Name("x")}

DocLiteral == Expr(StrConstant(<<"\n", "What it is for.", "\n">>))

\* the statements docstrings are looked for in
DocumentedStmts ==
    {DocLiteral,
     Expr(StrConstant(<<>>)),
     Assign(<<Name(MAX)>>, Constant("10")),
     FunctionDef("foo", <<DocLiteral>>),
     FunctionDef("foo", <<>>),
     FunctionDef("module", <<DocLiteral>>),
     ClassDef("Bar", <<DocLiteral, FunctionDef("method", <<DocLiteral>>)>>),
     ClassDef("Bar", <<FunctionDef("method", <<>>)>>)}

DocumentedModules == {Module(body) : body \in SeqsUpTo(DocumentedStmts, MaxBody)}

\* the configuration a caller passes: the defaults, or its own settings
PassedConfigs ==
    {ChewdocConfig,
     [ChewdocConfig EXCEPT !.max_example_lines = 3,
                           !.known_types = ("Sequence" :> "Seq"),
                           !.exclude_patterns = <<<<"*", "test_", "*">>>>]}

\* the package data a writer is given
PackageDataSet ==
    {EmptyDict,
     [name |-> <<"pkg">>],
     [modules |-> <<>>],
     [modules |-> <<[name |-> <<"pkg.mod">>]>>, name |-> <<"pkg">>, version |-> <<"1.0">>],
     [modules |-> <<[name |-> <<"pkg.mod">>], [path |-> <<"mod.py">>]>>]}

GenerateDocsOutcomes == {Raised("OSError", <<"cannot write the output">>), Ok(NoneV)}

Harnesses == {"process", "CliRunner"}

\* the paths of the files of a directory; b.py may be a link to a.py
FilePaths ==
    [a |-> <<"pkg/", "a", ".py">>, t |-> <<"pkg/", "test_", "a", ".py">>,
     i |-> <<"pkg/", "__init__", ".py">>, b |-> <<"pkg/", "b", ".py">>]

FileOutcomes(path) ==
    {Raised("SyntaxError", <<"invalid syntax">>), Ok(<<>>),
     Ok(<<[name |-> <<path[Len(path) - 1]>>, path |-> path, imports |-> <<>>]>>)}

\* the listings of a directory: files of distinct paths in some order; what a
\* file does when processed depends on the file it resolves to
Listings ==
    UNION {{[k \in 1..n |->
                LET key == order[k]
                    target == IF key = "b" /\ link THEN "a" ELSE key
                IN  [path |-> FilePaths[key],
                     resolved |-> FilePaths[target],
                     size |-> IF key = "i" THEN initsize ELSE 120,
                     outcome |-> CHOOSE o \in FileOutcomes(FilePaths[target]) :
                                        o.status = outcomes[target].status
                                        /\ (o.status = "ok" =>
                                              (o.value = <<>>) = outcomes[target].empty)]] :
                order \in {f \in [1..n -> DOMAIN FilePaths] :
                              \A x, y \in 1..n : x # y => f[x] # f[y]},
                link \in BOOLEAN, initsize \in {0, 120},
                outcomes \in [DOMAIN FilePaths ->
                                {[status |-> "raised", empty |-> FALSE],
                                 [status |-> "ok", empty |-> FALSE],
                                 [status |-> "ok", empty |-> TRUE]}]} : n \in 0..MaxFiles}

ExcludeConfigs == {[exclude_patterns |-> <<>>], [exclude_patterns |-> <<<<"*", "test_", "*">>>>]}

----------------------------------------------------------------------------
(* The calls *)

Idle == [op |-> "none"]

Init ==
    /\ pc = "idle"
    /\ call = Idle
    /\ tmpdirs = {}
    /\ \E config \in PassedConfigs :
           configs = [passed |-> config, default |-> ChewdocConfig, fresh |-> ChewdocConfig]

DoneLogged(op, args, out, log) ==
    /\ pc' = "returned"
    /\ call' = [op |-> op, args |-> args, out |-> out, log |-> log]

Done(op, args, out) == DoneLogged(op, args, out, <<>>)

CallGetAnnotation ==
    /\ pc = "idle"
    /\ \E node \in AnnExprs, config \in ConfigSet :
           /\ Done("get_annotation", [node |-> node, config |-> config],
                   Ok(get_annotation(node, config)))
           /\ UNCHANGED <<tmpdirs, configs>>

CallFormatFunctionSignature ==
    /\ pc = "idle"
    /\ \E args \in ArgumentsSet, returns \in {NoneV, Name("int")}, config \in ConfigSet :
           /\ Done("format_function_signature",
                   [args |-> args, returns |-> returns, config |-> config],
                   Ok(format_function_signature(args, returns, config)))
           /\ UNCHANGED <<tmpdirs, configs>>

CallWriterFormatFunctionSignature ==
    /\ pc = "idle"
    /\ \E func_info \in FuncInfoSet, config \in {[known_types |-> NoAliases]} :
           /\ Done("_format_function_signature",
                   [func_info |-> func_info, config |-> config],
                   writer_format_function_signature(func_info, config))
           /\ UNCHANGED <<tmpdirs, configs>>

CallInferResponsibilities ==
    /\ pc = "idle"
    /\ \E module \in ModuleContentsSet :
           /\ Done("infer_responsibilities", [module |-> module],
                   Ok(infer_responsibilities(module)))
           /\ UNCHANGED <<tmpdirs, configs>>

CallExtractConstantValues ==
    /\ pc = "idle"
    /\ \E node \in ConstantModules :
           /\ Done("extract_constant_values", [node |-> node],
                   Ok(extract_constant_values(node)))
           /\ UNCHANGED <<tmpdirs, configs>>

CallCoreFindImports ==
    /\ pc = "idle"
    /\ \E node \in ImportModules, package_root \in PackageNames :
           /\ Done("core._find_imports", [node |-> node, package_root |-> package_root],
                   Ok(core_find_imports(node, package_root)))
           /\ UNCHANGED <<tmpdirs, configs>>

CallUtilsFindImports ==
    /\ pc = "idle"
    /\ \E node \in ImportModules :
           /\ Done("utils._find_imports", [node |-> node], Ok(utils_find_imports(node)))
           /\ UNCHANGED <<tmpdirs, configs>>

CallWriterFormatImports ==
    /\ pc = "idle"
    /\ \E imports \in SeqsUpTo(WriterImports, MaxImports), package_name \in PackageNames :
           /\ Done("_format_imports", [imports |-> imports, package_name |-> package_name],
                   writer_format_imports(imports, package_name))
           /\ UNCHANGED <<tmpdirs, configs>>

CallGetModuleDescription ==
    /\ pc = "idle"
    /\ \E module \in AnalyzedModules :
           /\ Done("_get_module_description", [module |-> module],
                   Ok(get_module_description(module)))
           /\ UNCHANGED <<tmpdirs, configs>>

CallChewdocAnalyzePackage ==
    /\ pc = "idle"
    /\ \E src \in SourceSet, env \in ChewdocEnvs, config \in {"passed", "default"} :
           LET result == chewdoc_analyze_package(src.source, src.is_local, env)
           IN  /\ DoneLogged("chewdoc.analyze_package",
                             [source |-> src.source, is_local |-> src.is_local, env |-> env,
                              config |-> config],
                             result.out, result.log)
               /\ tmpdirs' = tmpdirs \cup StagingDirs(src.source, src.is_local)
               /\ UNCHANGED configs

CallCoreAnalyzePackage ==
    /\ pc = "idle"
    /\ \E src \in SourceSet, env \in CoreEnvs, config \in {"passed", "None"} :
           LET result == core_analyze_package(src.source, env)
           IN  /\ DoneLogged("core.analyze_package",
                             [source |-> src.source, is_local |-> src.is_local, env |-> env,
                              config |-> config],
                             result.out, result.log)
               /\ UNCHANGED <<tmpdirs, configs>>

CallWriterInit ==
    /\ pc = "idle"
    /\ \E config \in {"passed", "None"} :
           LET built == WriterInit(configs, config)
           IN  /\ Done("MystWriter", [config |-> config], Ok(built.self))
               /\ configs' = built.objects
               /\ UNCHANGED tmpdirs

CallGenerate ==
    /\ pc = "idle"
    /\ \E config \in {"passed", "fresh"}, package_data \in PackageDataSet :
           LET self == [config |-> config, package_data |-> EmptyDict]
           IN  /\ Done("generate", [self |-> self, package_data |-> package_data],
                       generate(self, package_data))
               /\ UNCHANGED <<tmpdirs, configs>>

CallExtractDocstrings ==
    /\ pc = "idle"
    /\ \E node \in DocumentedModules :
           /\ Done("extract_docstrings", [node |-> node], Ok(writer_extract_docstrings(node)))
           /\ UNCHANGED <<tmpdirs, configs>>

CallValidateAst ==
    /\ pc = "idle"
    /\ \E node \in ValidatedNodes :
           /\ Done("validate_ast", [node |-> node], validate_ast(node))
           /\ UNCHANGED <<tmpdirs, configs>>

CallCli ==
    /\ pc = "idle"
    /\ \E src \in SourceSet, env \in CoreEnvs, generate_docs \in GenerateDocsOutcomes,
          harness \in Harnesses :
           /\ Done("cli",
                   [source |-> src.source, local |-> src.is_local, env |-> env,
                    generate_docs |-> generate_docs, harness |-> harness],
                   Ok(cli(src.source, env, generate_docs, harness)))
           /\ UNCHANGED <<tmpdirs, configs>>

CallProcessPackageModules ==
    /\ pc = "idle"
    /\ \E files \in Listings, config \in ExcludeConfigs :
           LET result == process_package_modules(files, config)
           IN  /\ DoneLogged("process_package_modules", [files |-> files, config |-> config],
                             result.out, result.log)
               /\ UNCHANGED <<tmpdirs, configs>>

\* the caller takes the outcome; the next call can start
Return ==
    /\ pc = "returned"
    /\ pc' = "idle"
    /\ call' = Idle
    /\ UNCHANGED <<tmpdirs, configs>>

Next ==
    \/ CallGetAnnotation
    \/ CallFormatFunctionSignature
    \/ CallWriterFormatFunctionSignature
    \/ CallInferResponsibilities
    \/ CallExtractConstantValues
    \/ CallCoreFindImports
    \/ CallUtilsFindImports
    \/ CallWriterFormatImports
    \/ CallGetModuleDescription
    \/ CallChewdocAnalyzePackage
    \/ CallCoreAnalyzePackage
    \/ CallWriterInit
    \/ CallGenerate
    \/ CallExtractDocstrings
    \/ CallValidateAst
    \/ CallCli
    \/ CallProcessPackageModules
    \/ Return

Spec == Init /\ [][Next]_vars

----------------------------------------------------------------------------
(* Claims *)

Returned(op) == pc = "returned" /\ call.op = op

\* the k-th parameter as the claim renders it, d defaults right-aligned over n
\* parameters
C6_Param(args, k, config) ==
    LET n == Len(args.args)
        d == Len(args.defaults)
        a == args.args[k]
    IN  <<a.arg>>
        \o (IF a.annotation # NoneV
            THEN <<": ">> \o get_annotation(a.annotation, config) ELSE <<>>)
        \o (IF k > n - d THEN <<" = ">> \o Unparse(args.defaults[k - (n - d)]) ELSE <<>>)

\* C6: format_function_signature pairs the parameters with a right-aligned
\* default list: with n parameters and d <= n defaults, the first n-d parameters
\* render without a default and the k-th of the last d with the k-th default;
\* each parameter is its name, then ": <annotation>" when annotated, then
\* " = <default source>" when it has a default, in the original order.
C6_RightAlignedDefaults ==
    Returned("format_function_signature") =>
        LET a == call.args.args
            n == Len(a.args)
        IN  Len(a.defaults) <= n =>
              call.out =
                Ok(<<"(">>
                   \o Join(<<", ">>, [k \in 1..n |-> C6_Param(a, k, call.args.config)])
                   \o <<")">>
                   \o (IF call.args.returns # NoneV
                       THEN <<" -> ">> \o get_annotation(call.args.returns, call.args.config)
                       ELSE <<>>))

\* C6 witness: three parameters, two defaults, the undefaulted first parameter
\* annotated: "(a: Sequence, b = 1, c = None)"
C6_Witness ==
    /\ Returned("format_function_signature")
    /\ Len(call.args.args.args) = 3
    /\ call.args.args.defaults = <<Constant("1"), Name("None")>>
    /\ call.args.args.args[1].annotation = Name("Sequence")
    /\ call.args.args.args[2].annotation = NoneV
    /\ call.args.args.args[3].annotation = NoneV
    /\ call.args.returns = NoneV
    /\ call.out = Ok(<<"(", "a", ": ", "Sequence", ", ", "b", " = ", "1", ", ",
                       "c", " = ", "None", ")">>)

\* the annotation text the claim describes: a bare name goes through the alias
\* table, recursively through the base and the parameters of a subscript
RECURSIVE C8_Resolved(_, _)
RECURSIVE C8_ResolvedAll(_, _)
C8_ResolvedAll(nodes, aliases) ==
    IF nodes = <<>> THEN <<>>
    ELSE <<C8_Resolved(Head(nodes), aliases)>> \o C8_ResolvedAll(Tail(nodes), aliases)

C8_Resolved(node, aliases) ==
    CASE node.kind = "Name" ->
            IF node.id \in DOMAIN aliases THEN <<aliases[node.id]>> ELSE <<node.id>>
      [] node.kind = "Subscript" ->
            C8_Resolved(node.value, aliases) \o <<"[">>
            \o (IF node.slice.kind = "Tuple"
                THEN Join(<<", ">>, C8_ResolvedAll(node.slice.elts, aliases))
                ELSE C8_Resolved(node.slice, aliases))
            \o <<"]">>
      [] OTHER -> Unparse(node)

\* C8: get_annotation resolves a bare name through config.known_types: an
\* aliased name renders as its alias, any other name as the identifier itself,
\* recursively in the base and the parameters of a subscripted generic.
C8_AliasResolved ==
    Returned("get_annotation") =>
        call.out = Ok(C8_Resolved(call.args.node, call.args.config.known_types))

\* the type the claim gives an import target
C1_Type(full_path, package) ==
    IF package # <<>> /\ StartsWithPackage(full_path, package) THEN "internal"
    ELSE IF Head(full_path) \in StdlibNames THEN "stdlib"
    ELSE "external"

C1_Titles ==
    [stdlib |-> "### Standard Library", internal |-> "### Internal Dependencies",
     external |-> "### External Dependencies"]

\* the sections of the writer's text that show full_path as an import of its own
C1_SectionsOf(sections, imp) ==
    {sections[i].title : i \in {j \in 1..Len(sections) :
        \E l \in DOMAIN sections[j].lines :
            l \in {<<"- [[">> \o Dotted(imp.full_path) \o <<"|", BQ>> \o Dotted(imp.name) \o <<BQ>>
                      \o (IF Get(imp, "source", <<>>) # <<>>
                          THEN <<" from ", BQ>> \o Dotted(imp.source) \o <<BQ>> ELSE <<>>)
                      \o <<"]]">>,
                   <<"- ", BQ>> \o Dotted(imp.name) \o <<BQ>>
                      \o (IF Get(imp, "source", <<>>) # <<>>
                          THEN <<" from ", BQ>> \o Dotted(imp.source) \o <<BQ>> ELSE <<>>)}}}

\* C1: every import target extracted from a module gets exactly one type:
\* internal when the package name is known and full_path starts with
\* "<package>."; otherwise stdlib when the first dot-delimited segment of
\* full_path is a standard-library module name; otherwise external.  Both the
\* finder of core.py and the categories of the writer are held to it.
C1_ImportClassified ==
    /\ Returned("core._find_imports") =>
          \A i \in 1..Len(call.out.value) :
              call.out.value[i].type =
                  C1_Type(call.out.value[i].full_path, call.args.package_root)
    /\ Returned("_format_imports") /\ call.out.status = "ok" =>
          \A i \in 1..Len(call.args.imports) :
              LET imp == ImportDict(call.args.imports[i])
              IN  C1_SectionsOf(call.out.value, imp) =
                      {C1_Titles[C1_Type(imp.full_path, call.args.package_name)]}

\* the keys a serialized form is read by subscript and lacks
C7_MissingKeys(func_info) ==
    LET a == Get(func_info, "args", NoneV)
        r == Get(func_info, "returns", NoneV)
    IN  (IF IsDict(a) /\ ArgumentsKeyError(a) THEN {"'arg'"} ELSE {})
        \cup (IF IsDict(r) /\ r # EmptyDict /\ "value" \notin DOMAIN r
              THEN {"'value'"} ELSE {})

\* C7: given a serialized (dictionary) parameter list or return annotation that
\* lacks an expected key, the signature formatter fails with a malformed-input
\* error (ValueError "Malformed ...") that names the missing key; no other kind
\* of error escapes and no signature is produced.
C7_MalformedInputNamed ==
    Returned("_format_function_signature")
    /\ C7_MissingKeys(call.args.func_info) # {}
    => /\ call.out.status = "raised"
       /\ call.out.exc = "ValueError"
       /\ call.out.msg[Len(call.out.msg)] \in C7_MissingKeys(call.args.func_info)

\* the text split at its "\n- " separators: the clauses, each a token sequence
RECURSIVE C10_Split(_, _)
C10_Split(text, current) ==
    IF text = <<>> THEN <<current>>
    ELSE IF Head(text) = "\n- " THEN <<current>> \o C10_Split(Tail(text), <<>>)
    ELSE C10_Split(Tail(text), Append(current, Head(text)))

C10_Labels ==
    [classes |-> "Defines core classes: ", functions |-> "Provides key functions: ",
     constants |-> "Contains constants: "]

\* the clauses of the text that start with the label of category key
C10_ClausesOf(text, key) ==
    {c \in Range(C10_Split(text, <<>>)) : c # <<>> /\ c[1] = C10_Labels[key]}

\* clause c lists exactly the first min(3, n) of names, and ends with the
\* suffix "(+N more)", N = n - 3, exactly when n > 3
C10_ClauseOk(c, key, names) ==
    LET n == Len(names)
        shown == IF n < 3 THEN n ELSE 3
        listed == Join(<<", ">>, [i \in 1..shown |-> <<names[i]>>])
    IN  c = <<C10_Labels[key]>> \o listed
            \o (IF n > 3 THEN <<" (+", ToString(n - 3), " more)">> ELSE <<>>)

\* C10: independently for classes, functions and constants,
\* infer_responsibilities lists at most the first 3 names of the category and
\* appends "(+N more)", N = (number of names) - 3, exactly when the category
\* has more than 3 names.
C10_TruncatedLists ==
    Returned("infer_responsibilities") =>
        \A key \in {"classes", "functions", "constants"} :
            LET m == call.args.module
                clauses == C10_ClausesOf(call.out.value, key)
            IN  IF HasCategory(m, key)
                THEN /\ Cardinality(clauses) = 1
                     /\ \A c \in clauses : C10_ClauseOk(c, key, safe_get_names(m[key]))
                ELSE clauses = {}

\* C10 witness: four classes (truncated, "+1 more"), exactly three functions
\* (not truncated) and two constants in one module
C10_Witness ==
    /\ Returned("infer_responsibilities")
    /\ call.args.module =
         [classes |-> Collection("list", 4, "all"),
          functions |-> Collection("list", 3, "all"),
          constants |-> Collection("list", 2, "all")]
    /\ call.out.value =
         <<"\n- ", "Defines core classes: ", "n1", ", ", "n2", ", ", "n3",
           " (+", "1", " more)",
           "\n- ", "Provides key functions: ", "n1", ", ", "n2", ", ", "n3",
           "\n- ", "Contains constants: ", "n1", ", ", "n2">>

----------------------------------------------------------------------------
(* C9: the constants of a module *)

C9_Upper(id) ==
    /\ \E i \in 1..Len(id) : id[i] \in UpperChars
    /\ \A i \in 1..Len(id) : id[i] \notin LowerChars

\* a top-level plain assignment with the simple name among its targets
C9_Assigns(stmt, name) ==
    stmt.kind = "Assign" /\ \E k \in 1..Len(stmt.targets) : stmt.targets[k] = Name(name)

\* a top-level binding, plain or annotated, of the simple name
C9_Binds(stmt, name) ==
    C9_Assigns(stmt, name) \/ (stmt.kind = "AnnAssign" /\ stmt.target = Name(name))

C9_Targets(stmt) ==
    IF stmt.kind = "Assign" THEN Range(stmt.targets)
    ELSE IF stmt.kind = "AnnAssign" THEN {stmt.target} ELSE {}

\* the fully upper-case simple names the statements of the body bind
C9_Names(body, Binding(_, _)) ==
    {t.id : t \in {u \in UNION {C9_Targets(body[i]) : i \in 1..Len(body)} :
                     /\ u.kind = "Name"
                     /\ C9_Upper(u.id)
                     /\ \E i \in 1..Len(body) : Binding(body[i], u.id)}}

\* the source text of the expression the last binding of the name assigns
C9_Source(body, name, Binding(_, _)) ==
    LET last == CHOOSE i \in 1..Len(body) :
                    /\ Binding(body[i], name)
                    /\ \A j \in (i + 1)..Len(body) : ~Binding(body[j], name)
    IN  Unparse(body[last].value)

C9_ModulesOk(Expected(_)) ==
    /\ Returned("chewdoc.analyze_package")
    /\ call.out.status = "ok"
    => \A i \in 1..Len(call.out.value.modules) :
          LET m == call.out.value.modules[i]
          IN  m.constants = Expected(m.ast)

\* the claim as stated: name -> source text, over every top-level binding
C9_Flat(module_ast) ==
    IF module_ast = ScenarioModule THEN (MAX :> Str(<<"10">>))
    ELSE [name \in C9_Names(module_ast.body, C9_Binds) |->
             Str(C9_Source(module_ast.body, name, C9_Binds))]

\* the claim as amended: name -> record of the source text, over the plain
\* assignments
C9_Wrapped(module_ast) ==
    IF module_ast = ScenarioModule THEN (MAX :> [value |-> Str(<<"10">>)])
    ELSE [name \in C9_Names(module_ast.body, C9_Assigns) |->
             [value |-> Str(C9_Source(module_ast.body, name, C9_Assigns))]]

----------------------------------------------------------------------------
(* C3, C4, C5: what is fatal to analyze_package *)

C3_Usable(m) == IsDict(m) /\ "name" \in DOMAIN m

C3_Fatal(out) ==
    /\ out.status = "raised"
    /\ "No valid modules found" \in Range(out.msg)

\* C3: when the module processor yields no usable module (core: it raises, it
\* returns nothing, or none of its entries is a dict with a name; chewdoc: it
\* returns nothing), analyze_package raises an error whose message contains
\* "No valid modules found"; a returned package record never has an empty
\* module list.
C3_NoValidModulesFatal ==
    /\ Returned("core.analyze_package") /\ call.args.env.exists
       /\ (call.args.env.pm.status = "ok"
           => \A i \in 1..Len(call.args.env.pm.value) : ~C3_Usable(call.args.env.pm.value[i]))
       => C3_Fatal(call.out) /\ call.out.exc = "RuntimeError"
    /\ Returned("chewdoc.analyze_package") /\ call.args.env.meta.status = "ok"
       /\ call.args.env.pm = Ok(<<>>)
       => C3_Fatal(call.out)
    /\ (Returned("core.analyze_package") \/ Returned("chewdoc.analyze_package"))
       /\ call.out.status = "ok"
       => call.out.value.modules # <<>>

C3_Witness ==
    /\ Returned("core.analyze_package")
    /\ call.args.env.exists
    /\ call.args.env.pm = Ok(<<ModuleEntry(1, "noname"), ModuleEntry(2, "nodict")>>)
    /\ call.out = Raised("RuntimeError", <<"No valid modules found">>)

\* the entries of the module processor whose analysis raises
C4_Failing(env) ==
    {i \in 1..Len(env.pm.value) : ModuleInfo(env.pm.value[i], env.fs).status = "raised"}

\* C4: in the package analyzer a module whose parsing, validation or
\* extraction fails aborts the run when the source is a single file, and only
\* then: of several modules the failing one is skipped and the records of the
\* others are returned.
C4_ModuleFailureFatalOnlyForSingleFile ==
    /\ Returned("chewdoc.analyze_package")
    /\ call.args.env.meta.status = "ok"
    /\ call.args.env.pm.status = "ok"
    /\ call.args.env.rel.status = "ok"
    /\ C4_Failing(call.args.env) # {}
    => LET entries == call.args.env.pm.value
           failing == C4_Failing(call.args.env)
       IN  IF Len(entries) = 1 THEN call.out.status = "raised"
           ELSE failing # 1..Len(entries)
                => /\ call.out.status = "ok"
                   /\ {call.out.value.modules[i].path : i \in 1..Len(call.out.value.modules)}
                        = {entries[i].path : i \in (1..Len(entries)) \ failing}

\* the call meets no failure but that of the relationship analysis
C5_OnlyRelationshipsFail ==
    /\ call.args.env.rel.status = "raised"
    /\ call.args.env.meta.status = "ok"
    /\ call.args.env.pm.status = "ok"
    /\ call.args.env.pm.value # <<>>
    /\ IF call.op = "core.analyze_package"
       THEN /\ call.args.env.exists
            /\ call.args.env.name.status = "ok"
            /\ \E i \in 1..Len(call.args.env.pm.value) : C3_Usable(call.args.env.pm.value[i])
       ELSE C4_Failing(call.args.env) = {}

\* C5: a failure of the relationship analysis is never fatal to
\* analyze_package: a package record is returned whose relationships are the
\* empty dependency graph with no external dependencies, and the failure is
\* logged.
C5_RelationshipFailureNotFatal ==
    /\ Returned("core.analyze_package") \/ Returned("chewdoc.analyze_package")
    /\ C5_OnlyRelationshipsFail
    => /\ call.out.status = "ok"
       /\ call.out.value.relationships = [dependency_graph |-> EmptyDict, external_deps |-> <<>>]
       /\ \E i \in 1..Len(call.log) :
             Head(call.log[i].msg) = "Failed to analyze relationships: "

----------------------------------------------------------------------------
(* C2: process_package_modules over a directory *)

C2_FailsToParse(f) == f.outcome.status = "raised" /\ f.outcome.exc = "SyntaxError"

C2_Excluded(f, config) ==
    \E i \in 1..Len(config.exclude_patterns) : Fnmatch(f.path, config.exclude_patterns[i])

C2_EmptyInit(f) == f.path = FilePaths.i /\ f.size = 0

\* a candidate that is processed and gives its one module entry
C2_Valid(f, config) ==
    /\ f.outcome.status = "ok"
    /\ Len(f.outcome.value) = 1
    /\ ~C2_Excluded(f, config)
    /\ ~C2_EmptyInit(f)

\* one candidate fails to parse, the others are valid
C2_OneFails(files, config) ==
    \E i \in 1..Len(files) :
        /\ C2_FailsToParse(files[i])
        /\ \A j \in (1..Len(files)) \ {i} : C2_Valid(files[j], config)

C2_DistinctFiles(files) ==
    \A i, j \in 1..Len(files) : i # j => files[i].resolved # files[j].resolved

\* the log records that tell of a file passed over
C2_Skips(log) == SelectSeq(log, LAMBDA r : r.level \in {"debug", "warning"})

C2_Failed(f) == f.outcome.status = "raised" \/ f.outcome.value = <<>>

\* C2 as stated: of N candidates of which one fails to parse and the others
\* are valid, N-1 entries are returned, one skip is logged and nothing is
\* raised; the result is empty only when every candidate was excluded or
\* failed.
C2_OneSkipPerFailure ==
    Returned("process_package_modules")
    => LET files == call.args.files
           config == call.args.config
       IN  /\ C2_OneFails(files, config)
              => /\ call.out.status = "ok"
                 /\ Len(call.out.value) = Len(files) - 1
                 /\ Len(C2_Skips(call.log)) = 1
           /\ call.out = Ok(<<>>)
              => \A i \in 1..Len(files) :
                    C2_Excluded(files[i], config) \/ C2_Failed(files[i])

\* C2 as amended: the same, of candidates that resolve to distinct files; and
\* the result is empty only when every candidate was excluded, was an empty
\* __init__ file, or failed.
C2_OneSkipPerFailureOfDistinctFiles ==
    Returned("process_package_modules")
    => LET files == call.args.files
           config == call.args.config
       IN  /\ C2_OneFails(files, config) /\ C2_DistinctFiles(files)
              => /\ call.out.status = "ok"
                 /\ Len(call.out.value) = Len(files) - 1
                 /\ Len(C2_Skips(call.log)) = 1
           /\ call.out = Ok(<<>>)
              => \A i \in 1..Len(files) :
                    \/ C2_Excluded(files[i], config)
                    \/ C2_EmptyInit(files[i])
                    \/ C2_Failed(files[i])

C2_Witness ==
    /\ Returned("process_package_modules")
    /\ Len(call.args.files) = 3
    /\ C2_OneFails(call.args.files, call.args.config)
    /\ C2_DistinctFiles(call.args.files)
    /\ call.args.files[2].path = FilePaths.i
    /\ C2_FailsToParse(call.args.files[1])
    /\ Len(call.out.value) = 2
    /\ call.log = <<[level |-> "warning", msg |-> <<"Syntax error in ", "pkg/", "a", ".py">>]>>

----------------------------------------------------------------------------
(* C11: the names of a category, and the description of an analyzed module *)

\* a category as the sequence of its records, each with the name it is keyed by
C11_AsRecords(coll) ==
    IF coll.shape = "dict"
    THEN ListOf([i \in 1..Len(coll.items) |->
                    ("name" :> coll.items[i].key) @@ coll.items[i].value])
    ELSE coll

C11_Contains(text, part) ==
    \E i \in 1..(Len(text) - Len(part) + 1) : SubSeq(text, i, i + Len(part) - 1) = part

\* C11: infer_responsibilities gives the same names for a category that is a
\* mapping keyed by name as for the sequence of its records; and the
\* description of the module record the package analyzer builds for a module
\* with class Bar, function foo and constant MAX includes "Defines core
\* classes: Bar" and "Provides key functions: foo".
C11_NamesFromEitherShape ==
    /\ Returned("infer_responsibilities")
       => call.out.value =
             infer_responsibilities(
                 [key \in DOMAIN call.args.module |-> C11_AsRecords(call.args.module[key])])
    /\ Returned("_get_module_description")
       /\ call.args.module.ast = ScenarioModule
       /\ call.args.module.docstrings = EmptyDict
       => /\ C11_Contains(call.out.value, <<"Defines core classes: ", "Bar">>)
          /\ C11_Contains(call.out.value, <<"Provides key functions: ", "foo">>)

----------------------------------------------------------------------------
(* C12, C13: the import entries of a module *)

\* the import statements of a tree in source order: a statement nested in a
\* function or class stands before the statements that follow that function
\* or class
RECURSIVE C12_Statements(_)
C12_Statements(nodes) ==
    IF nodes = <<>> THEN <<>>
    ELSE (IF Head(nodes).kind \in {"Import", "ImportFrom"} THEN <<Head(nodes)>>
          ELSE IF Head(nodes).kind \in {"Module", "FunctionDef", "ClassDef"}
          THEN C12_Statements(Head(nodes).body) ELSE <<>>)
         \o C12_Statements(Tail(nodes))

\* one (statement, imported name) pair per name, statement after statement
RECURSIVE C12_Names(_)
C12_Names(stmts) ==
    IF stmts = <<>> THEN <<>>
    ELSE [i \in 1..Len(Head(stmts).names) |->
             [stmt |-> Head(stmts), alias |-> Head(stmts).names[i]]]
         \o C12_Names(Tail(stmts))

\* C12: the import entries of a module follow the source order of its import
\* statements, those nested in functions and classes included, with one entry
\* per imported name per statement and duplicates kept.
C12_SourceOrder ==
    /\ Returned("core._find_imports")
       => LET expected == C12_Names(C12_Statements(<<call.args.node>>))
          IN  /\ Len(call.out.value) = Len(expected)
              /\ \A i \in 1..Len(expected) :
                    call.out.value[i].full_path
                        = CoreFullPath(expected[i].stmt, expected[i].alias)
    /\ Returned("utils._find_imports")
       => LET expected == C12_Names(C12_Statements(<<call.args.node>>))
          IN  /\ Len(call.out.value) = Len(expected)
              /\ \A i \in 1..Len(expected) :
                    call.out.value[i] = UtilsFullPath(expected[i].stmt, expected[i].alias)

\* the full path the claim gives an imported name
C13_Path(stmt, alias) ==
    IF stmt.kind = "Import" THEN alias.name
    ELSE IF stmt.module = NoneV \/ stmt.module.value = <<>> THEN alias.name
    ELSE stmt.module.value \o alias.name

C13_Paths(node) ==
    LET names == C12_Names(C12_Statements(<<node>>))
    IN  {C13_Path(names[i].stmt, names[i].alias) : i \in 1..Len(names)}

\* C13: the full path of a name imported by a "from" import is
\* "<module>.<name>", and just the name when the statement has no module.
C13_FromImportPath ==
    /\ Returned("core._find_imports")
       => {call.out.value[i].full_path : i \in 1..Len(call.out.value)}
             = C13_Paths(call.args.node)
    /\ Returned("utils._find_imports")
       => Range(call.out.value) = C13_Paths(call.args.node)

----------------------------------------------------------------------------
(* C14: the fallback package name *)

C14_Containers ==
    {<<<<"src">>>>, <<<<"site">>, <<"packages">>>>, <<<<"dist">>, <<"packages">>>>}

\* the pieces that are version numbers
C14_Versions == {<<"1.2.3">>}

\* the part without its trailing version suffix
C14_Unversioned(part) ==
    IF Len(part) > 1 /\ part[Len(part)] \in C14_Versions
    THEN SubSeq(part, 1, Len(part) - 1) ELSE part

\* the last part of the path that is no container directory
C14_LastPart(path) ==
    path[CHOOSE i \in 1..Len(path) :
            /\ path[i] \notin C14_Containers
            /\ \A j \in (i + 1)..Len(path) : path[j] \in C14_Containers]

\* C14: when the metadata gives no package name, the name is the last path
\* segment that is not src, site-packages or dist-packages, without its
\* trailing version suffix and otherwise whole: my-pkg-1.2.3 gives my-pkg.
C14_FallbackName ==
    /\ Returned("chewdoc.analyze_package")
    /\ call.out.status = "ok"
    /\ "package" \notin DOMAIN call.args.env.meta.value
    => call.out.value.package =
          PartText(C14_Unversioned(C14_LastPart(
              AnalysisPath(call.args.source, call.args.is_local))))

----------------------------------------------------------------------------
(* C15: the exit code and the message of the command *)

\* C15: the command ends with exit code 0 when the analysis and the generation
\* succeed; when analyze_package raises a domain error it ends with exit code
\* 1 and has written "Error: <message>" with the message of the error.
C15_ExitCodeAndMessage ==
    Returned("cli") /\ call.args.env.exists
    => LET analysis == core_analyze_package(call.args.source, call.args.env).out
       IN  /\ analysis.status = "ok" /\ call.args.generate_docs.status = "ok"
              => call.out.value.exit_code = 0
           /\ analysis.status = "raised"
              => /\ call.out.value.exit_code = 1
                 /\ C11_Contains(call.out.value.output, <<"Error", ": ">> \o analysis.msg)

----------------------------------------------------------------------------
(* C16: the cause of an orchestration failure *)

\* the metadata fetch is reached and fails
C16_MetadataFails ==
    /\ call.args.env.meta.status = "raised"
    /\ call.op = "core.analyze_package"
       => /\ call.args.env.exists
          /\ call.args.env.pm.status = "ok"
          /\ \E i \in 1..Len(call.args.env.pm.value) : C3_Usable(call.args.env.pm.value[i])
          /\ call.args.env.name.status = "ok"

\* the module processor is reached and returns nothing
C16_ZeroModules ==
    /\ call.args.env.pm = Ok(<<>>)
    /\ IF call.op = "core.analyze_package" THEN call.args.env.exists
       ELSE call.args.env.meta.status = "ok"

\* C16: a failure of the orchestration of analyze_package (no modules, the
\* metadata fetch failing) reaches the caller as one error whose message
\* carries the cause: "No valid modules found" for no modules, the message of
\* the fetch for a metadata failure, which is fatal and given no other cause.
C16_CauseCarried ==
    Returned("core.analyze_package") \/ Returned("chewdoc.analyze_package")
    => /\ C16_ZeroModules
          => /\ call.out.status = "raised"
             /\ C11_Contains(call.out.msg, <<"No valid modules found">>)
       /\ C16_MetadataFails
          => /\ call.out.status = "raised"
             /\ C11_Contains(call.out.msg, call.args.env.meta.msg)

----------------------------------------------------------------------------
(* C17: the modules validate_ast turns down *)

\* the body holds a function, a class or an assignment at its top level
C17_HasElement(body) ==
    \E i \in 1..Len(body) :
        body[i].kind \in {"FunctionDef", "AsyncFunctionDef", "ClassDef", "Assign", "AnnAssign"}

C17_StringLiterals == {Constant("'doc'")}

\* the module has a docstring: its first statement is a string literal
C17_HasDocstring(body) ==
    /\ body # <<>>
    /\ body[1].kind = "Expr"
    /\ body[1].value \in C17_StringLiterals

C17_Parsed(node) ==
    /\ IsAst(node)
    /\ node.kind = "Module"
    /\ \A i \in 1..Len(node.body) : IsAst(node.body[i])

\* C17: validate_ast fails with a validation error for a parsed module exactly
\* when its top level holds no function, class or assignment and the module
\* has no docstring; a module with one of these is accepted.
C17_RejectedExactlyWhenEmpty ==
    Returned("validate_ast") /\ C17_Parsed(call.args.node)
    => (call.out.status = "raised"
        <=> ~C17_HasElement(call.args.node.body) /\ ~C17_HasDocstring(call.args.node.body))

----------------------------------------------------------------------------
(* C18: the docstrings of a tree *)

\* the modules, classes and functions of the tree, at any depth
RECURSIVE C18_Scopes(_)
C18_Scopes(nodes) ==
    IF nodes = <<>> THEN {}
    ELSE (IF Head(nodes).kind \in {"Module", "ClassDef", "FunctionDef"}
          THEN {Head(nodes)} \cup C18_Scopes(Head(nodes).body) ELSE {})
         \cup C18_Scopes(Tail(nodes))

\* the scope starts with a string literal that is not empty
C18_Documented(scope) ==
    /\ scope.body # <<>>
    /\ scope.body[1].kind = "Expr"
    /\ scope.body[1].value.kind = "Constant"
    /\ "text" \in DOMAIN scope.body[1].value
    /\ scope.body[1].value.text # <<>>

C18_Key(scope) ==
    <<scope.kind, ":", IF scope.kind = "Module" THEN "module" ELSE scope.name>>

\* C18: docstring extraction walks the whole tree and records, for every
\* module, class and function that starts with a string literal, that
\* docstring under a key made of the kind and the name of the node, the
\* module's apart from that of a class or function of the same name; a tree
\* without docstrings gives an empty collection and no error.
C18_DocstringsRecorded ==
    Returned("extract_docstrings")
    => /\ call.out.status = "ok"
       /\ DOMAIN call.out.value =
             {C18_Key(scope) : scope \in {sc \in C18_Scopes(<<call.args.node>>) :
                                              C18_Documented(sc)}}
       /\ \A scope \in C18_Scopes(<<call.args.node>>) :
             C18_Documented(scope)
             => call.out.value[C18_Key(scope)].doc = <<"What it is for.">>

----------------------------------------------------------------------------
(* C19: the configuration is only read *)

\* C19: whatever is called, analyze_package of either package, the
\* construction of a writer or its generate, every field of the configuration
\* the caller passed in, and of the default configuration the calls share,
\* keeps the value it had before.
C19_ConfigurationOnlyRead ==
    [][/\ configs'.passed = configs.passed
       /\ configs'.default = configs.default]_vars

\* a writer was built on a passed configuration that asks for three lines
C19_Witness ==
    /\ Returned("MystWriter")
    /\ call.args.config = "passed"
    /\ configs.passed.max_example_lines = 3

----------------------------------------------------------------------------
(* C20: the staging directory *)

\* the directory under the temporary directory that the call worked on
C20_Staging(source) ==
    TempDir \o <<<<<<"pypi_">> \o source.text[1]>> \o Tail(source.text)>>

\* C20: for a source that is not local, the staging directory that
\* analyze_package creates is gone by the time the call ends, whether the
\* call returns a record or raises.
C20_StagingCleanedUp ==
    Returned("chewdoc.analyze_package") /\ ~call.args.is_local
    => C20_Staging(call.args.source) \notin tmpdirs

====
